---- MODULE Spec2Model ----
(***************************************************************************)
(* State-machine model of virtual-things-adapter.js: the property store    *)
(* (VirtualThingsProperty), the derived property rules of setValue, the    *)
(* lock/unlock state machine of VirtualThingsDevice.performAction and the  *)
(* ffmpeg supervisor (startTranscode / stopTranscode / unload) of          *)
(* VirtualThingsAdapter.  Every handler runs to completion on the Node     *)
(* event loop, so each handler is one action.                              *)
(***************************************************************************)
EXTENDS Integers, Sequences, FiniteSets, TLC

(***************************************************************************)
(* JavaScript values.  A value carries its JS type; the unused fields hold *)
(* a fixed filler so that values of different types are comparable.        *)
(***************************************************************************)
Bool(x) == [type |-> "boolean", b |-> x, s |-> "", n |-> 0, d |-> 1]
Str(x) == [type |-> "string", b |-> FALSE, s |-> x, n |-> 0, d |-> 1]
Num(x) == [type |-> "number", b |-> FALSE, s |-> "", n |-> x, d |-> 1]
Null == [type |-> "null", b |-> FALSE, s |-> "", n |-> 0, d |-> 1]
Undefined == [type |-> "undefined", b |-> FALSE, s |-> "", n |-> 0, d |-> 1]
NaN == [type |-> "number", b |-> FALSE, s |-> "NaN", n |-> 0, d |-> 1]

Gcd(a, b) == CHOOSE g \in 1 .. b : a % g = 0 /\ b % g = 0
                   /\ \A h \in 1 .. b : (a % h = 0 /\ b % h = 0) => h <= g

\* The number num / den (den > 0), in lowest terms; a whole number is kept
\* as Num.
Frac(num, den) ==
    IF num % den = 0 THEN Num(num \div den)
    ELSE LET g == Gcd(num, den) IN
         [type |-> "number", b |-> FALSE, s |-> "", n |-> num \div g, d |-> den \div g]

IsNumber(v) == v.type = "number"

\* Math.floor and Math.ceil of a number that is not NaN.
Floor(v) == v.n \div v.d
Ceil(v) == -((-v.n) \div v.d)

\* a <= b for two numbers that are not NaN.
Leq(a, b) == a.n * b.d <= b.n * a.d

\* JS truthiness (the !! operator): false, "", 0 and null are falsy.
Truthy(v) ==
    CASE v.type = "boolean" -> v.b
      [] v.type = "string" -> v.s # ""
      [] v.type = "number" -> v.n # 0 /\ v # NaN
      [] OTHER -> FALSE

(***************************************************************************)
(* The device templates the model instantiates, with the properties the    *)
(* rules of setValue and performAction read or write.                      *)
(***************************************************************************)
Prop(name, type, readOnly, default) ==
    [name |-> name, type |-> type, readOnly |-> readOnly, value |-> default]

on == Prop("on", "boolean", FALSE, Bool(FALSE))
color == Prop("color", "string", FALSE, Str("#ffffff"))
colorTemperature == Prop("colorTemperature", "number", FALSE, Num(2500))
colorMode == Prop("colorMode", "string", TRUE, Str("color"))

onOffColorLight == {color}
dimmableColorLight == {color, colorTemperature, colorMode, on}
videoCamera ==
    {Prop("video", "null", TRUE, Null),
     Prop("streamActive", "boolean", FALSE, Bool(FALSE))}
thermostat ==
    {Prop("heatingCooling", "string", TRUE, Str("heating")),
     Prop("thermostatMode", "string", FALSE, Str("heat"))}
lock == {Prop("locked", "string", TRUE, Str("unlocked"))}
actionsEventsThing == {}
onOffSwitchWithPin == {on}
onOffSwitchWithCredentials == {on}
alarm == {Prop("alarm", "boolean", TRUE, Bool(FALSE))}

VIRTUAL_THINGS ==
    [onOffColorLight |-> onOffColorLight,
     dimmableColorLight |-> dimmableColorLight,
     videoCamera |-> videoCamera,
     thermostat |-> thermostat,
     lock |-> lock,
     actionsEventsThing |-> actionsEventsThing,
     onOffSwitchWithPin |-> onOffSwitchWithPin,
     onOffSwitchWithCredentials |-> onOffSwitchWithCredentials,
     alarm |-> alarm]

DeviceIds == DOMAIN VIRTUAL_THINGS

\* A property is identified by <<device id, property name>>.
PropKeys == UNION {{<<d, p.name>> : p \in VIRTUAL_THINGS[d]} : d \in DeviceIds}

\* The values a caller passes to setValue, per property name: values of the
\* declared type, and for the boolean properties values of other types too.
Inputs(name) ==
    CASE name = "on" -> {Bool(TRUE), Bool(FALSE), Num(1), Str("")}
      [] name = "color" -> {Str("#ffffff"), Str("#ff0000")}
      [] name = "colorTemperature" -> {Num(2500), Num(9000)}
      [] name = "colorMode" -> {Str("color"), Str("temperature")}
      [] name = "thermostatMode" -> {Str("heat"), Str("cool"), Str("off"), Str("auto")}
      [] name = "heatingCooling" -> {Str("cooling"), Str("off")}
      [] name = "streamActive" -> {Bool(TRUE), Bool(FALSE), Num(1), Str("")}
      [] name = "video" -> {Null, Str("x")}
      [] name = "locked" -> {Str("locked"), Str("unlocked")}
      [] name = "alarm" -> {Bool(TRUE), Bool(FALSE)}

\* The values storage.getItem finds under a property's key: Undefined when
\* nothing is stored.
Stored(name) ==
    CASE name = "streamActive" -> {Undefined, Bool(TRUE)}
      [] name = "locked" -> {Undefined, Str("locked")}
      [] name = "color" -> {Undefined, Null, Str("#00ff00")}
      [] name = "on" -> {Undefined, Bool(TRUE), Bool(FALSE)}
      [] OTHER -> {Undefined}

(***************************************************************************)
(* Bounds of the model.                                                    *)
(***************************************************************************)
\* Lock/unlock invocations whose 2000 ms timer has not fired yet.
MaxPending == 2
\* ffmpeg processes that exist at once (the one held and those killed and
\* still exiting).
MaxProcs == 2

\* Math.random() is drawn as u / RandomSteps with u in 0 .. RandomSteps - 1.
RandomSteps == 20
\* Device instances constructed for one id.
MaxInstances == 2

VARIABLES
    config,            \* "undefined" until the constructor's promise chain loads it
    unloading,         \* this.unloading: "undefined", "false" or "true"
    ffmpegMajor,       \* major version found by the probe at startup, NoVersion for null
    value,             \* property key -> current value, for the constructed devices
    lockTimers,        \* pending setTimeout callbacks of lock/unlock, oldest first
    transcodeProcess,  \* this.transcodeProcess: a process id, or NoProcess for null
    procs,             \* process id -> the state of that ffmpeg child process
    last,              \* the handler that ran last: its call, its result, its effects
    db,                \* the configuration the database holds, which loadConfig reads
    chain,             \* where the constructor's promise chain stands
    devices,           \* this.devices: the ids of the devices handleDeviceAdded registered
    built,             \* device id -> how many times new VirtualThingsDevice ran for it
    waiting,           \* the properties whose storage.getItem has not resolved yet
    interval,          \* the properties whose setInterval drift timer is running
    unloadCalled,      \* whether unload has been called
    pending            \* the properties with a storage.setItem that has not settled

vars == <<config, unloading, ffmpegMajor, value, lockTimers, transcodeProcess, procs, last,
          db, chain, devices, built, waiting, interval, unloadCalled, pending>>

\* What the handlers of properties, actions and processes leave alone.
adapterVars == <<db, chain, devices, built, waiting, interval, unloadCalled>>

(***************************************************************************)
(* Custom things: the descriptors of config.customThings.  A descriptor    *)
(* whose properties field is missing has hasProperties = FALSE.  A field   *)
(* a property descriptor does not have is Undefined.                       *)
(***************************************************************************)
RawProp(name, type, default, minimum, maximum) ==
    [name |-> name, type |-> type, default |-> default,
     minimum |-> minimum, maximum |-> maximum]

CustomThing(id, properties) ==
    [id |-> id, hasProperties |-> TRUE, properties |-> properties]

NoProperties(id) == [id |-> id, hasProperties |-> FALSE, properties |-> <<>>]

\* `virtual-things-custom-${descr.id}`
CustomId(descr) == "custom-" \o descr.id

\* Number(v), for the values and numerals of the model.
ToNumber(v) ==
    CASE v.type = "number" -> v
      [] v.type = "boolean" -> Num(IF v.b THEN 1 ELSE 0)
      [] v.type = "null" -> Num(0)
      [] v.type = "string" /\ v.s = "" -> Num(0)
      [] v.type = "string" /\ v.s = "42" -> Num(42)
      [] v.type = "string" /\ v.s = "4.5" -> Frac(9, 2)
      [] OTHER -> NaN

\* `${v}`, for the values of the model.
TemplateString(v) ==
    CASE v.type = "string" -> v
      [] v.type = "boolean" -> Str(IF v.b THEN "true" ELSE "false")
      [] v.type = "null" -> Str("null")
      [] v.type = "undefined" -> Str("undefined")
      [] v = NaN -> Str("NaN")
      [] v = Num(42) -> Str("42")
      [] v = Num(0) -> Str("0")
      [] v = Num(1) -> Str("1")
      [] v = Frac(9, 2) -> Str("4.5")

\* Mutant: the default of a numeric property left as supplied.
convertDefaultKeepsNumeric(type, default) ==
    CASE type = "boolean" ->
           IF default = Str("true") THEN Bool(TRUE)
           ELSE IF default = Str("false") THEN Bool(FALSE)
           ELSE Bool(Truthy(default))
      [] type = "null" -> Null
      [] type = "string" -> TemplateString(default)
      [] OTHER -> default

\* The switch of addAllThings that converts property.default.
convertDefault(type, default) ==
    CASE type \in {"integer", "number"} -> ToNumber(default)
      [] type = "boolean" ->
           IF default = Str("true") THEN Bool(TRUE)
           ELSE IF default = Str("false") THEN Bool(FALSE)
           ELSE Bool(Truthy(default))
      [] type = "null" -> Null
      [] type = "string" -> TemplateString(default)
      [] OTHER -> default

\* The clean-up of one property of a custom descriptor and the template
\* property built from it: minimum and maximum are dropped for a type that
\* is not numeric, and for a numeric type when they are equal.
customProperty(property) ==
    LET numeric == property.type \in {"number", "integer"}
        keep == numeric /\ property.minimum # property.maximum
    IN [name |-> property.name,
        type |-> property.type,
        readOnly |-> FALSE,
        value |-> convertDefault(property.type, property.default),
        minimum |-> IF keep THEN property.minimum ELSE Undefined,
        maximum |-> IF keep THEN property.maximum ELSE Undefined]

\* newDescr.properties of a custom descriptor.
customTemplate(descr) ==
    {customProperty(descr.properties[i]) : i \in DOMAIN descr.properties}

(***************************************************************************)
(* The template and descriptor of a property of a constructed device.      *)
(***************************************************************************)
custom(cfg) ==
    [id \in {CustomId(cfg.customThings[i]) : i \in DOMAIN cfg.customThings} |->
        customTemplate(CHOOSE t \in {cfg.customThings[i] : i \in DOMAIN cfg.customThings} :
                           CustomId(t) = id)]

TemplateOf(id) == IF id \in DeviceIds THEN VIRTUAL_THINGS[id] ELSE custom(db)[id]

KeysOf(id) == {<<id, p.name>> : p \in TemplateOf(id)}

Descr(k) == CHOOSE p \in TemplateOf(k[1]) : p.name = k[2]

NoVersion == -1
NoProcess == 0
Pids == 1 .. MaxProcs
NoKey == <<"", "">>

\* One observable effect of a handler, in the order the handler produces them.
Ev(kind, key, val) == [kind |-> kind, key |-> key, val |-> val]

\* The record kept of the handler that ran last: the call (op, key, arg), the
\* value the property held when it was called, how the call ended, the
\* effects in order and, for the lock timer, the number drawn; arg2 is the
\* second argument of a call that has two (setCredentials).
Last(op, key, arg, before, result, events) ==
    [op |-> op, key |-> key, arg |-> arg, before |-> before, result |-> result,
     events |-> events, draw |-> -1, arg2 |-> Null]

\* A child process: st is "free" (no such process), "running" or "exited"
\* (dead, its 'close' event not yet delivered); listeners tells whether the
\* 'close' listener is still attached; killed whether kill() was sent.
FreeProc == [st |-> "free", listeners |-> FALSE, killed |-> FALSE]

FreePids(ps) == {p \in Pids : ps[p].st = "free"}

Min(S) == CHOOSE x \in S : \A y \in S : x <= y

(***************************************************************************)
(* randomNumber(true, min, max) with numeric min and max:                  *)
(* Math.floor(Math.random() * (max - min + 1)) + min, for the draw         *)
(* Math.random() = u / RandomSteps.                                        *)
(***************************************************************************)
randomNumberPastMax(min, max, u) == ((u * (max - min + 2)) \div RandomSteps) + min

randomNumber(min, max, u) == ((u * (max - min + 1)) \div RandomSteps) + min

\* The lock jams when randomNumber(true, 0, LockDrawMax) equals JamDraw.
LockDrawMax == 19
JamDraw == 2

(***************************************************************************)
(* VirtualThingsProperty                                                   *)
(***************************************************************************)
\* setCachedValue: a boolean property stores !!value, any other the value.
Coerce(k, v) == IF Descr(k).type = "boolean" THEN Bool(Truthy(v)) ELSE v

\* Mutant: the cast to boolean applied whatever the declared type.
setCachedValueCastsAll(vals, k, v) == [vals EXCEPT ![k] = Bool(Truthy(v))]

\* Mutant: the value is kept per property name, for all devices together.
setCachedValueSharesName(vals, k, v) ==
    [j \in DOMAIN vals |-> IF j[2] = k[2] THEN Coerce(j, v) ELSE vals[j]]

setCachedValue(vals, k, v) == [vals EXCEPT ![k] = Coerce(k, v)]

\* Mutant: the device notified before the value is stored.
setCachedValueNotifiesFirst(vals, k, v) ==
    LET new == setCachedValue(vals, k, v) IN
    [value |-> new,
     events |-> IF new[k] # vals[k] THEN <<Ev("notify", k, vals[k])>> ELSE <<>>]

\* Property.setCachedValueAndNotify of the base class: store, and notify the
\* device only when the stored value changed.
setCachedValueAndNotify(vals, k, v) ==
    LET new == setCachedValue(vals, k, v) IN
    [value |-> new,
     events |-> IF new[k] # vals[k] THEN <<Ev("notify", k, new[k])>> ELSE <<>>]

(***************************************************************************)
(* The drift timer of a property (randomizePropertyValues).                *)
(***************************************************************************)
\* descr.enum of a property; <<>> when it has none.  The metadata built for
\* a custom property carries no enum.
EnumOf(k) ==
    IF k[1] \notin DeviceIds THEN <<>>
    ELSE CASE k[2] = "colorMode" -> <<"color", "temperature">>
           [] k[2] = "heatingCooling" -> <<"off", "heating", "cooling">>
           [] k[2] = "thermostatMode" -> <<"off", "heat", "cool", "auto">>
           [] k[2] = "locked" -> <<"locked", "unlocked", "jammed", "unknown">>
           [] OTHER -> <<>>

\* descr.minimum and descr.maximum; Undefined when not declared.
RangeOf(k) ==
    IF k[1] \notin DeviceIds
    THEN [minimum |-> Descr(k).minimum, maximum |-> Descr(k).maximum]
    ELSE IF k[2] = "colorTemperature"
         THEN [minimum |-> Num(2500), maximum |-> Num(9000)]
         ELSE [minimum |-> Undefined, maximum |-> Undefined]

\* descr['@type'] === 'ColorProperty'
IsColorProperty(k) == k[1] \in DeviceIds /\ k[2] = "color"

HexDigits == <<"0", "1", "2", "3", "4", "5", "6", "7", "8", "9",
               "a", "b", "c", "d", "e", "f">>

\* n.toString(16).padStart(2, '0') for a byte n.
Hex2(n) == HexDigits[(n \div 16) + 1] \o HexDigits[(n % 16) + 1]

RECURSIVE HexOfBytes(_)
HexOfBytes(bytes) ==
    IF bytes = <<>> THEN "" ELSE Hex2(Head(bytes)) \o HexOfBytes(Tail(bytes))

\* randomNumber(integer, min, max) as the drift timer calls it, with the
\* descriptor's minimum and maximum, for Math.random() = u / RandomSteps.
randomValue(integer, min, max, u) ==
    IF IsNumber(min) /\ IsNumber(max) /\ min # NaN /\ max # NaN
    THEN IF integer
         THEN Num(randomNumber(Ceil(min), Floor(max), u))
         ELSE Frac(u * (max.n * min.d - min.n * max.d) + min.n * max.d * RandomSteps,
                   min.d * max.d * RandomSteps)
    ELSE IF integer THEN Num(0) ELSE Frac(u, RandomSteps)

\* Mutant: the enumerated values are not looked at.
driftValueIgnoresEnum(k, us) ==
    LET type == Descr(k).type
        range == RangeOf(k)
    IN CASE type = "boolean" -> Bool(2 * us[1] >= RandomSteps)
         [] type = "string" ->
              IF IsColorProperty(k)
              THEN Str("#" \o HexOfBytes([i \in 1 .. 3 |-> randomNumber(0, 255, us[i])]))
              ELSE Str(HexOfBytes([i \in 1 .. 20 |-> randomNumber(0, 255, us[1])]))
         [] type \in {"number", "integer"} ->
              randomValue(type = "integer", range.minimum, range.maximum, us[1])
         [] OTHER -> Undefined

\* The value the timer's callback draws for property k from the draws us
\* (each u among them standing for Math.random() = u / RandomSteps, and for
\* the 20 bytes of crypto.randomBytes the byte drawn like a colour
\* component); Undefined when the callback returns without a value.
driftValue(k, us) ==
    LET enum == EnumOf(k)
        type == Descr(k).type
        range == RangeOf(k)
    IN IF Len(enum) > 0 THEN Str(enum[randomNumber(0, Len(enum) - 1, us[1]) + 1])
       ELSE CASE type = "boolean" -> Bool(2 * us[1] >= RandomSteps)
              [] type = "string" ->
                   IF IsColorProperty(k)
                   THEN Str("#" \o HexOfBytes([i \in 1 .. 3 |-> randomNumber(0, 255, us[i])]))
                   ELSE Str(HexOfBytes([i \in 1 .. 20 |-> randomNumber(0, 255, us[1])]))
              [] type \in {"number", "integer"} ->
                   randomValue(type = "integer", range.minimum, range.maximum, us[1])
              [] OTHER -> Undefined

(***************************************************************************)
(* VirtualThingsAdapter: the ffmpeg supervisor                             *)
(***************************************************************************)
\* The guards of startTranscode: it goes on to spawn only when the adapter is
\* not unloading, holds no process and ffmpeg was found at startup.
Spawns(unl, major, tp) == ~(unl = "true" \/ tp # NoProcess) /\ major # NoVersion

\* Mutant: the test of this.transcodeProcess left out of the guard.
startTranscodeIgnoresHandle(unl, major, tp, ps) ==
    IF unl # "true" /\ major # NoVersion /\ FreePids(ps) # {}
    THEN LET p == Min(FreePids(ps)) IN
         [transcodeProcess |-> p,
          procs |-> [ps EXCEPT ![p] = [st |-> "running", listeners |-> TRUE,
                                       killed |-> FALSE]],
          events |-> <<Ev("startTranscode", NoKey, Null), Ev("spawn", NoKey, Num(p))>>]
    ELSE [transcodeProcess |-> tp, procs |-> ps,
          events |-> <<Ev("startTranscode", NoKey, Null)>>]

startTranscode(unl, major, tp, ps) ==
    IF Spawns(unl, major, tp)
    THEN LET p == Min(FreePids(ps)) IN
         [transcodeProcess |-> p,
          procs |-> [ps EXCEPT ![p] = [st |-> "running", listeners |-> TRUE,
                                       killed |-> FALSE]],
          events |-> <<Ev("startTranscode", NoKey, Null), Ev("spawn", NoKey, Num(p))>>]
    ELSE [transcodeProcess |-> tp, procs |-> ps,
          events |-> <<Ev("startTranscode", NoKey, Null)>>]

\* Mutant: kill without removeAllListeners.
stopTranscodeKeepsListeners(tp, ps) ==
    IF tp # NoProcess
    THEN [transcodeProcess |-> NoProcess,
          procs |-> [ps EXCEPT ![tp] = [@ EXCEPT !.killed = TRUE]],
          events |-> <<Ev("stopTranscode", NoKey, Null), Ev("kill", NoKey, Num(tp))>>]
    ELSE [transcodeProcess |-> tp, procs |-> ps,
          events |-> <<Ev("stopTranscode", NoKey, Null)>>]

\* Mutant: the handle kept after the kill.
stopTranscodeKeepsHandle(tp, ps) ==
    IF tp # NoProcess
    THEN [transcodeProcess |-> tp,
          procs |-> [ps EXCEPT ![tp] =
                        IF @.st = "running"
                        THEN [st |-> "running", listeners |-> FALSE, killed |-> TRUE]
                        ELSE FreeProc],
          events |-> <<Ev("stopTranscode", NoKey, Null), Ev("kill", NoKey, Num(tp))>>]
    ELSE [transcodeProcess |-> tp, procs |-> ps,
          events |-> <<Ev("stopTranscode", NoKey, Null)>>]

\* stopTranscode: removeAllListeners, kill, drop the handle.  A process that
\* had already exited, its 'close' not yet delivered, is gone with its
\* listeners; a running one keeps running until the signal ends it.
stopTranscode(tp, ps) ==
    IF tp # NoProcess
    THEN [transcodeProcess |-> NoProcess,
          procs |-> [ps EXCEPT ![tp] =
                        IF @.st = "running"
                        THEN [st |-> "running", listeners |-> FALSE, killed |-> TRUE]
                        ELSE FreeProc],
          events |-> <<Ev("stopTranscode", NoKey, Null), Ev("kill", NoKey, Num(tp))>>]
    ELSE [transcodeProcess |-> tp, procs |-> ps,
          events |-> <<Ev("stopTranscode", NoKey, Null)>>]

(***************************************************************************)
(* VirtualThingsProperty.setValue, as the state and the effects it leaves. *)
(***************************************************************************)
\* Mutant: the states written for 'heat' and 'cool' exchanged.
HeatingCoolingSwapped(mode) ==
    CASE mode = Str("heat") -> Str("cooling")
      [] mode = Str("cool") -> Str("heating")
      [] mode = Str("off") -> Str("off")

HeatingCoolingFor(mode) ==
    CASE mode = Str("heat") -> Str("heating")
      [] mode = Str("cool") -> Str("cooling")
      [] mode = Str("off") -> Str("off")

\* Mutant: the case 'colorTemperature' writes 'color' too.
ColorModeAlwaysColor(name) == Str("color")

\* The colorMode the cases 'color' and 'colorTemperature' of setValue write.
ColorModeFor(name) == IF name = "color" THEN Str("color") ELSE Str("temperature")

\* Mutant: the readOnly test left out, the write goes through.
setValueIgnoresReadOnly(vals, k, v, unl, major, tp, ps) ==
    LET stored == setCachedValue(vals, k, v) IN
    [value |-> stored, transcodeProcess |-> tp, procs |-> ps, result |-> "resolved",
     events |-> <<Ev("resolve", k, stored[k]), Ev("notify", k, stored[k])>>]

\* Mutant: the rule writes the paired property with setValue.
setValueRecurses(vals, k, v, unl, major, tp, ps) ==
    LET same == [value |-> vals, transcodeProcess |-> tp, procs |-> ps] IN
    IF Descr(k).readOnly
    THEN same @@ [result |-> "Read-only property", events |-> <<>>]
    ELSE
      LET stored == setCachedValue(vals, k, v)
          this == stored[k]
          colorModeProperty == <<k[1], "colorMode">>
          heatingCooling == <<k[1], "heatingCooling">>
          set == [same EXCEPT !.value = stored]
          done(r) == [r EXCEPT !.events =
                         @ \o <<Ev("resolve", k, r.value[k]), Ev("notify", k, r.value[k])>>]
                     @@ [result |-> "resolved"]
          paired(pk, pv) ==
              LET w == setCachedValue(stored, pk, pv) IN
              done([set EXCEPT !.value = w]
                   @@ [events |-> <<Ev("resolve", pk, pv), Ev("notify", pk, pv)>>])
      IN
      CASE k[2] = "streamActive" ->
             LET sup == IF Truthy(this) THEN startTranscode(unl, major, tp, ps)
                                        ELSE stopTranscode(tp, ps)
             IN done([value |-> stored] @@ sup)
        [] k[2] = "thermostatMode" /\ this \in {Str("heat"), Str("cool"), Str("off")} ->
             IF heatingCooling \in DOMAIN vals
             THEN paired(heatingCooling, HeatingCoolingFor(this))
             ELSE set @@ [result |-> "TypeError", events |-> <<>>]
        [] k[2] \in {"color", "colorTemperature"} /\ colorModeProperty \in DOMAIN vals ->
             paired(colorModeProperty, ColorModeFor(k[2]))
        [] OTHER -> done(set @@ [events |-> <<>>])

setValue(vals, k, v, unl, major, tp, ps) ==
    LET same == [value |-> vals, transcodeProcess |-> tp, procs |-> ps] IN
    IF Descr(k).readOnly
    THEN same @@ [result |-> "Read-only property", events |-> <<>>]
    ELSE
      LET stored == setCachedValue(vals, k, v)
          this == stored[k]
          colorModeProperty == <<k[1], "colorMode">>
          heatingCooling == <<k[1], "heatingCooling">>
          set == [same EXCEPT !.value = stored]
          done(r) == [r EXCEPT !.events =
                         @ \o <<Ev("resolve", k, r.value[k]), Ev("notify", k, r.value[k])>>]
                     @@ [result |-> "resolved"]
          paired(pk, pv) ==
              LET w == setCachedValueAndNotify(stored, pk, pv) IN
              done([set EXCEPT !.value = w.value] @@ [events |-> w.events])
      IN
      CASE k[2] = "streamActive" ->
             LET sup == IF Truthy(this) THEN startTranscode(unl, major, tp, ps)
                                        ELSE stopTranscode(tp, ps)
             IN done([value |-> stored] @@ sup)
        [] k[2] = "thermostatMode" /\ this \in {Str("heat"), Str("cool"), Str("off")} ->
             IF heatingCooling \in DOMAIN vals
             THEN paired(heatingCooling, HeatingCoolingFor(this))
             \* properties.get returns undefined: the call on it throws inside
             \* the promise executor, which rejects the promise.
             ELSE set @@ [result |-> "TypeError", events |-> <<>>]
        [] k[2] \in {"color", "colorTemperature"} /\ colorModeProperty \in DOMAIN vals ->
             paired(colorModeProperty, ColorModeFor(k[2]))
        [] OTHER -> done(set @@ [events |-> <<>>])

\* The properties setValue stores with setCachedValue: its own, and the
\* paired one its rule writes.
setValueStores(vals, k, v) ==
    LET this == Coerce(k, v) IN
    IF Descr(k).readOnly THEN {}
    ELSE {k} \cup
         CASE k[2] = "thermostatMode" /\ this \in {Str("heat"), Str("cool"), Str("off")}
                /\ <<k[1], "heatingCooling">> \in DOMAIN vals -> {<<k[1], "heatingCooling">>}
           [] k[2] \in {"color", "colorTemperature"}
                /\ <<k[1], "colorMode">> \in DOMAIN vals -> {<<k[1], "colorMode">>}
           [] OTHER -> {}

(***************************************************************************)
(* Initial state: the constructor has returned, its promise chain (open    *)
(* the database, load the configuration, add the things) is still pending. *)
(***************************************************************************)
\* The configuration the database holds when nothing was configured.
DefaultConfig ==
    [randomizePropertyValues |-> FALSE, persistPropertyValues |-> FALSE,
     customThings |-> <<>>]

\* The ids of the devices addAllThings can construct.
AllIds == DeviceIds \cup DOMAIN custom(db)

\* The state after the adapter's constructor has returned, its promise
\* chain pending, for a stored configuration among cfgs.
InitWith(cfgs) ==
    /\ db \in cfgs
    /\ config = "undefined"
    /\ unloading = "undefined"
    /\ ffmpegMajor \in {NoVersion, 4}
    /\ value = [k \in {} |-> Null]
    /\ lockTimers = <<>>
    /\ transcodeProcess = NoProcess
    /\ procs = [p \in Pids |-> FreeProc]
    /\ chain = "loadConfig"
    /\ devices = {}
    /\ built = [id \in AllIds |-> 0]
    /\ waiting = {}
    /\ interval = {}
    /\ unloadCalled = FALSE
    /\ pending = {}
    /\ last = Last("constructor", NoKey, Null, Null, "", <<>>)

Init == InitWith({DefaultConfig})

(***************************************************************************)
(* addAllThings.  A device is constructed for every built-in template and  *)
(* every custom descriptor whose id is not in this.devices; the loop over  *)
(* the custom descriptors ends with a TypeError at the first constructed   *)
(* descriptor whose properties cannot be iterated.  Without persistence    *)
(* the properties of a device are created and the device is registered     *)
(* before any other handler runs; with persistence each property waits for *)
(* storage.getItem.  The properties followed are those of the first        *)
(* instance constructed for an id.                                         *)
(***************************************************************************)
\* Mutant: the drift timers started whatever randomizePropertyValues is.
addAllThingsStartsTimers(devs, blt, vals, wtg, ivl) ==
    LET things == db.customThings
        present(id) == id \in devs
        bad == {i \in DOMAIN things :
                   ~present(CustomId(things[i])) /\ ~things[i].hasProperties}
        stop == IF bad = {} THEN Len(things) + 1 ELSE Min(bad)
        made == {id \in DeviceIds : ~present(id)}
                \cup {CustomId(things[i]) :
                         i \in {j \in 1 .. (stop - 1) : ~present(CustomId(things[j]))}}
        first == {id \in made : blt[id] = 0}
        keys == UNION {KeysOf(id) : id \in first}
        now == IF db.persistPropertyValues THEN {} ELSE keys
        added == {id \in made : KeysOf(id) \subseteq now}
    IN [devices |-> devs \cup added,
        built |-> [id \in DOMAIN blt |-> IF id \in made THEN blt[id] + 1 ELSE blt[id]],
        value |-> [k \in DOMAIN vals \cup now |->
                     IF k \in now THEN Coerce(k, Descr(k).value) ELSE vals[k]],
        waiting |-> wtg \cup (keys \ now),
        interval |-> ivl \cup now,
        result |-> IF bad = {} THEN "resolved" ELSE "TypeError"]

addAllThings(devs, blt, vals, wtg, ivl) ==
    LET things == db.customThings
        present(id) == id \in devs
        bad == {i \in DOMAIN things :
                   ~present(CustomId(things[i])) /\ ~things[i].hasProperties}
        stop == IF bad = {} THEN Len(things) + 1 ELSE Min(bad)
        made == {id \in DeviceIds : ~present(id)}
                \cup {CustomId(things[i]) :
                         i \in {j \in 1 .. (stop - 1) : ~present(CustomId(things[j]))}}
        first == {id \in made : blt[id] = 0}
        keys == UNION {KeysOf(id) : id \in first}
        now == IF db.persistPropertyValues THEN {} ELSE keys
        added == {id \in made : KeysOf(id) \subseteq now}
    IN [devices |-> devs \cup added,
        built |-> [id \in DOMAIN blt |-> IF id \in made THEN blt[id] + 1 ELSE blt[id]],
        value |-> [k \in DOMAIN vals \cup now |->
                     IF k \in now THEN Coerce(k, Descr(k).value) ELSE vals[k]],
        waiting |-> wtg \cup (keys \ now),
        interval |-> ivl \cup (IF db.randomizePropertyValues THEN now ELSE {}),
        result |-> IF bad = {} THEN "resolved" ELSE "TypeError"]

\* The end of setCachedValue: with persistence, storage.setItem is called
\* for each property in keys and its promise is left to settle later.  The
\* writes in flight are followed per property, not per call.
setItem(pnd, keys) == IF db.persistPropertyValues THEN pnd \cup keys ELSE pnd

\* The last step of the constructor's promise chain: addAllThings, and
\* unloading set to false unless addAllThings threw.
ChainEnd ==
    LET r == addAllThings(devices, built, value, waiting, interval) IN
    /\ devices' = r.devices
    /\ built' = r.built
    /\ value' = r.value
    /\ waiting' = r.waiting
    /\ interval' = r.interval
    /\ unloading' = IF r.result = "resolved" THEN "false" ELSE unloading
    /\ chain' = IF r.result = "resolved" THEN "done" ELSE "failed"
    /\ last' = Last("ready", NoKey, Null, Null, r.result, <<>>)

\* The constructor's promise chain without persistence: once the
\* configuration is read, the rest of the chain runs without a handler in
\* between.
AdapterReady ==
    /\ chain = "loadConfig"
    /\ ~db.persistPropertyValues
    /\ config' = "loaded"
    /\ ChainEnd
    /\ UNCHANGED <<ffmpegMajor, lockTimers, transcodeProcess, procs, db, unloadCalled,
                   pending>>

\* With persistence: the configuration is read and storage.init is begun.
ConfigLoaded ==
    /\ chain = "loadConfig"
    /\ db.persistPropertyValues
    /\ config' = "loaded"
    /\ chain' = "storageInit"
    /\ last' = Last("config", NoKey, Null, Null, "", <<>>)
    /\ UNCHANGED <<unloading, ffmpegMajor, value, lockTimers, transcodeProcess, procs,
                   db, devices, built, waiting, interval, unloadCalled, pending>>

\* With persistence: storage.init has completed.
StorageReady ==
    /\ chain = "storageInit"
    /\ ChainEnd
    /\ UNCHANGED <<config, ffmpegMajor, lockTimers, transcodeProcess, procs, db,
                   unloadCalled, pending>>

\* Mutant: what storage holds is not looked at.
initialValueIgnoresStorage(k, stored) == Descr(k).value

\* The callback of storage.getItem in the device's constructor: the
\* template's value when nothing, or null, is stored.
initialValue(k, stored) ==
    IF stored \in {Undefined, Null} THEN Descr(k).value ELSE stored

\* Mutant: the device is registered as soon as one property is created.
handleDeviceAddedAtOnce(devs, wtg, id) == devs \cup {id}

\* Promise.all(promises).then(() => this.adapter.handleDeviceAdded(this)):
\* device id is registered once none of its properties is awaited (wtg).
handleDeviceAdded(devs, wtg, id) ==
    IF KeysOf(id) \cap wtg = {} THEN devs \cup {id} ELSE devs

\* With persistence: storage.getItem has completed for property k of a
\* device under construction, with the stored value (Undefined when there is
\* none).  The property is created; the device is registered when it was
\* the last one.
PropertyCreated(k, stored) ==
    /\ k \in waiting
    /\ LET v == initialValue(k, stored) IN
       value' = [j \in DOMAIN value \cup {k} |-> IF j = k THEN Coerce(k, v) ELSE value[j]]
    /\ waiting' = waiting \ {k}
    /\ interval' = IF db.randomizePropertyValues THEN interval \cup {k} ELSE interval
    /\ devices' = handleDeviceAdded(devices, waiting', k[1])
    /\ pending' = setItem(pending, {k})
    /\ last' = Last("created", k, stored, Null, "", <<>>)
    /\ UNCHANGED <<config, unloading, ffmpegMajor, lockTimers, transcodeProcess, procs,
                   db, chain, built, unloadCalled>>

\* Mutant: a failed write puts the template's value back and is reported
\* to the caller.
setItemSettledUndoes(vals, k, ok) ==
    IF ok THEN [value |-> vals, result |-> "stored", events |-> <<>>]
    ELSE [value |-> [vals EXCEPT ![k] = Descr(k).value], result |-> "rejected",
          events |-> <<Ev("notify", k, Descr(k).value)>>]

\* The promise of storage.setItem settles: nothing is done when it is
\* fulfilled, the catch callback logs the error when it is rejected.
setItemSettled(vals, k, ok) ==
    IF ok THEN [value |-> vals, result |-> "stored", events |-> <<>>]
    ELSE [value |-> vals, result |-> "logged", events |-> <<Ev("log", k, Null)>>]

SetItemSettles(k, ok) ==
    /\ k \in pending
    /\ LET r == setItemSettled(value, k, ok) IN
       /\ value' = r.value
       /\ last' = Last("setItem", k, Null, value[k], r.result, r.events)
    /\ pending' = pending \ {k}
    /\ UNCHANGED <<config, unloading, ffmpegMajor, lockTimers, transcodeProcess, procs>>
    /\ UNCHANGED adapterVars

\* VirtualThingsAdapter.startPairing.  Before the configuration is loaded
\* the first device constructor throws on this.adapter.config.
StartPairing ==
    /\ \A id \in AllIds : built[id] < MaxInstances
    /\ IF config = "undefined"
       THEN /\ last' = Last("startPairing", NoKey, Null, Null, "TypeError", <<>>)
            /\ UNCHANGED <<devices, built, value, waiting, interval>>
       ELSE LET r == addAllThings(devices, built, value, waiting, interval) IN
            /\ devices' = r.devices
            /\ built' = r.built
            /\ value' = r.value
            /\ waiting' = r.waiting
            /\ interval' = r.interval
            /\ last' = Last("startPairing", NoKey, Null, Null, r.result, <<>>)
    /\ UNCHANGED <<config, unloading, ffmpegMajor, lockTimers, transcodeProcess, procs,
                   db, chain, unloadCalled, pending>>

\* Mutant: the update and the notification made whatever was drawn.
driftWriteAlways(vals, k, v) ==
    IF v = Undefined
    THEN [value |-> vals, events |-> <<>>]
    ELSE [value |-> setCachedValue(vals, k, v), events |-> <<Ev("notify", k, v)>>]

\* The end of the timer's callback: if (value !== this.value) the value is
\* stored and the change is notified.
driftWrite(vals, k, v) ==
    IF v = Undefined \/ (v = vals[k] /\ v # NaN)
    THEN [value |-> vals, events |-> <<>>]
    ELSE [value |-> setCachedValue(vals, k, v), events |-> <<Ev("notify", k, v)>>]

\* The drift timer of property k fires, with draws us.
Drift(k, us) ==
    /\ k \in interval
    /\ LET v == driftValue(k, us)
           r == driftWrite(value, k, v)
       IN /\ value' = r.value
          /\ pending' = setItem(pending, IF r.events = <<>> THEN {} ELSE {k})
          /\ last' = Last("drift", k, v, value[k], "", r.events)
    /\ UNCHANGED <<config, unloading, ffmpegMajor, lockTimers, transcodeProcess, procs>>
    /\ UNCHANGED adapterVars

\* The gateway writes value v to property k of a constructed device.
SetValue(k, v) ==
    /\ k[1] \in devices
    /\ (k[2] = "streamActive" /\ Truthy(Coerce(k, v))
          /\ Spawns(unloading, ffmpegMajor, transcodeProcess))
       => FreePids(procs) # {}
    /\ LET r == setValue(value, k, v, unloading, ffmpegMajor, transcodeProcess, procs) IN
       /\ value' = r.value
       /\ transcodeProcess' = r.transcodeProcess
       /\ procs' = r.procs
       /\ last' = Last("setValue", k, v, value[k], r.result, r.events)
    /\ pending' = setItem(pending, setValueStores(value, k, v))
    /\ UNCHANGED <<config, unloading, ffmpegMajor, lockTimers>>
    /\ UNCHANGED adapterVars

(***************************************************************************)
(* VirtualThingsDevice.performAction, cases lock and unlock.               *)
(***************************************************************************)
TargetState(name) == IF name = "lock" THEN Str("locked") ELSE Str("unlocked")

\* Mutant: no early return when the lock is already in the target state.
performActionAlwaysMoves(vals, timers, d, name) ==
    LET prop == <<d, "locked">>
        w == setCachedValueAndNotify(vals, prop, Str("unknown"))
    IN [value |-> w.value,
        lockTimers |-> Append(timers, [device |-> d, targetState |-> TargetState(name)]),
        events |-> <<Ev("start", prop, Null)>> \o w.events
                     \o <<Ev("setTimeout", prop, TargetState(name))>>]

\* Mutant: the case falls through to the action.finish() after the switch.
performActionFinishesEarly(vals, timers, d, name) ==
    LET prop == <<d, "locked">> IN
    IF vals[prop] = TargetState(name)
    THEN [value |-> vals, lockTimers |-> timers,
          events |-> <<Ev("start", prop, Null), Ev("finish", prop, Null)>>]
    ELSE LET w == setCachedValueAndNotify(vals, prop, Str("unknown")) IN
         [value |-> w.value,
          lockTimers |-> Append(timers, [device |-> d, targetState |-> TargetState(name)]),
          events |-> <<Ev("start", prop, Null)>> \o w.events
                       \o <<Ev("setTimeout", prop, TargetState(name)),
                            Ev("finish", prop, Null)>>]

\* Mutant: a jammed lock is left alone, as if it were in the target state.
performActionStaysJammed(vals, timers, d, name) ==
    LET prop == <<d, "locked">> IN
    IF vals[prop] \in {TargetState(name), Str("jammed")}
    THEN [value |-> vals, lockTimers |-> timers,
          events |-> <<Ev("start", prop, Null), Ev("finish", prop, Null)>>]
    ELSE LET w == setCachedValueAndNotify(vals, prop, Str("unknown")) IN
         [value |-> w.value,
          lockTimers |-> Append(timers, [device |-> d, targetState |-> TargetState(name)]),
          events |-> <<Ev("start", prop, Null)>> \o w.events
                       \o <<Ev("setTimeout", prop, TargetState(name))>>]

performAction(vals, timers, d, name) ==
    LET targetState == TargetState(name)
        prop == <<d, "locked">>
    IN
    IF vals[prop] = targetState
    THEN [value |-> vals, lockTimers |-> timers,
          events |-> <<Ev("start", prop, Null), Ev("finish", prop, Null)>>]
    ELSE LET w == setCachedValueAndNotify(vals, prop, Str("unknown")) IN
         [value |-> w.value,
          lockTimers |-> Append(timers, [device |-> d, targetState |-> targetState]),
          events |-> <<Ev("start", prop, Null)>> \o w.events
                       \o <<Ev("setTimeout", prop, targetState)>>]

\* The gateway invokes the lock or unlock action of a lock device.
PerformAction(d, name) ==
    /\ d \in devices
    /\ value[<<d, "locked">>] # TargetState(name) => Len(lockTimers) < MaxPending
    /\ LET r == performAction(value, lockTimers, d, name) IN
       /\ value' = r.value
       /\ lockTimers' = r.lockTimers
       /\ last' = Last(name, <<d, "locked">>, TargetState(name), value[<<d, "locked">>],
                       "resolved", r.events)
    /\ pending' = setItem(pending, IF value[<<d, "locked">>] = TargetState(name)
                                   THEN {} ELSE {<<d, "locked">>})
    /\ UNCHANGED <<config, unloading, ffmpegMajor, transcodeProcess, procs>>
    /\ UNCHANGED adapterVars

\* template.actions: the names a device's requestAction accepts.
Actions(d) ==
    CASE d = "lock" -> {"lock", "unlock"}
      [] d = "alarm" -> {"trigger", "silence"}
      [] d = "actionsEventsThing" -> {"basic", "single"}
      [] OTHER -> {}

\* Mutant: silence leaves the alarm property as it is.
performActionCaseSilenceKeeps(vals, d, name, u) ==
    LET prop == <<d, "alarm">>
        start == <<Ev("start", <<d, name>>, Null)>>
        finish == <<Ev("finish", <<d, name>>, Null)>>
    IN
    CASE name = "basic" ->
           [value |-> vals, stores |-> {},
            events |-> start
               \o <<Ev("event", <<d, "virtualEvent">>, Num((u * 100) \div RandomSteps))>>
               \o finish]
      [] name = "trigger" ->
           LET w == setCachedValue(vals, prop, Bool(TRUE)) IN
           [value |-> w, stores |-> {prop},
            events |-> start
               \o <<Ev("notify", prop, w[prop]),
                    Ev("event", <<d, "alarmEvent">>, Str("Something happened!"))>>
               \o finish]
      [] name = "silence" ->
           [value |-> vals, stores |-> {},
            events |-> start \o <<Ev("notify", prop, vals[prop])>> \o finish]
      [] OTHER -> [value |-> vals, stores |-> {}, events |-> start \o finish]

\* VirtualThingsDevice.performAction, the cases basic, trigger and silence
\* and the names without a case, which all reach the action.finish() after
\* the switch.  u is the draw of Math.random() of the case basic.
performActionCase(vals, d, name, u) ==
    LET prop == <<d, "alarm">>
        start == <<Ev("start", <<d, name>>, Null)>>
        finish == <<Ev("finish", <<d, name>>, Null)>>
    IN
    CASE name = "basic" ->
           [value |-> vals, stores |-> {},
            events |-> start
               \o <<Ev("event", <<d, "virtualEvent">>, Num((u * 100) \div RandomSteps))>>
               \o finish]
      [] name = "trigger" ->
           LET w == setCachedValue(vals, prop, Bool(TRUE)) IN
           [value |-> w, stores |-> {prop},
            events |-> start
               \o <<Ev("notify", prop, w[prop]),
                    Ev("event", <<d, "alarmEvent">>, Str("Something happened!"))>>
               \o finish]
      [] name = "silence" ->
           LET w == setCachedValue(vals, prop, Bool(FALSE)) IN
           [value |-> w, stores |-> {prop},
            events |-> start \o <<Ev("notify", prop, w[prop])>> \o finish]
      [] OTHER -> [value |-> vals, stores |-> {}, events |-> start \o finish]

\* The gateway invokes an action of a device other than the lock.
PerformActionCase(d, name, u) ==
    /\ d \in devices
    /\ name \in Actions(d) \ {"lock", "unlock"}
    /\ LET r == performActionCase(value, d, name, u) IN
       /\ value' = r.value
       /\ pending' = setItem(pending, r.stores)
       /\ last' = Last(name, <<d, name>>, Null,
                       IF <<d, "alarm">> \in DOMAIN value THEN value[<<d, "alarm">>] ELSE Null,
                       "resolved", r.events)
    /\ UNCHANGED <<config, unloading, ffmpegMajor, lockTimers, transcodeProcess, procs>>
    /\ UNCHANGED adapterVars

\* Mutant: the jam test compares with a number randomNumber never returns.
lockResolveNeverJams(vals, timer, r) ==
    LET prop == <<timer.device, "locked">>
        w == setCachedValueAndNotify(vals, prop, timer.targetState)
    IN [value |-> w.value,
        events |-> w.events \o <<Ev("notify", prop, w.value[prop]),
                                 Ev("finish", prop, Null)>>]

\* The callback of setTimeout(..., 2000), for the draw r of randomNumber.
lockResolve(vals, timer, r) ==
    LET prop == <<timer.device, "locked">>
        w == setCachedValueAndNotify(vals, prop,
                 IF r = JamDraw THEN Str("jammed") ELSE timer.targetState)
    IN [value |-> w.value,
        events |-> w.events \o <<Ev("notify", prop, w.value[prop]),
                                 Ev("finish", prop, Null)>>]

\* The oldest pending timer fires (all timers have the same delay, so they
\* fire in the order they were set).
LockTimeout(u) ==
    /\ lockTimers # <<>>
    /\ LET timer == Head(lockTimers)
           draw == randomNumber(0, LockDrawMax, u)
           r == lockResolve(value, timer, draw)
       IN
       /\ value' = r.value
       /\ last' = [Last("lockTimeout", <<timer.device, "locked">>, timer.targetState,
                        value[<<timer.device, "locked">>], "", r.events)
                      EXCEPT !.draw = draw]
    /\ lockTimers' = Tail(lockTimers)
    /\ pending' = setItem(pending, {<<Head(lockTimers).device, "locked">>})
    /\ UNCHANGED <<config, unloading, ffmpegMajor, transcodeProcess, procs>>
    /\ UNCHANGED adapterVars

(***************************************************************************)
(* The ffmpeg child process and its 'close' listener.                      *)
(***************************************************************************)
\* Process p ends: on its own, or from the signal kill() sent.  Its 'close'
\* event is queued if a listener is still attached.
ProcessExit(p) ==
    /\ procs[p].st = "running"
    /\ procs' = [procs EXCEPT ![p] = IF @.listeners THEN [@ EXCEPT !.st = "exited"]
                                                    ELSE FreeProc]
    /\ last' = Last("exit", NoKey, Num(p), Null, IF procs[p].killed THEN "killed" ELSE "",
                    <<>>)
    /\ UNCHANGED <<config, unloading, ffmpegMajor, value, lockTimers, transcodeProcess>>
    /\ UNCHANGED <<adapterVars, pending>>

\* Mutant: the listener drops the handle and does not start again.
onCloseDropsOnly(unl, major, ps, p) ==
    [transcodeProcess |-> NoProcess, procs |-> [ps EXCEPT ![p] = FreeProc],
     events |-> <<>>]

\* The 'close' listener startTranscode attached to process p runs:
\* this.transcodeProcess = null; this.startTranscode().
onClose(unl, major, ps, p) ==
    startTranscode(unl, major, NoProcess, [ps EXCEPT ![p] = FreeProc])

CloseEvent(p) ==
    /\ procs[p].st = "exited"
    /\ procs[p].listeners
    /\ LET r == onClose(unloading, ffmpegMajor, procs, p) IN
       /\ transcodeProcess' = r.transcodeProcess
       /\ procs' = r.procs
       /\ last' = Last("close", NoKey, Num(p), Null, IF procs[p].killed THEN "killed" ELSE "",
                       r.events)
    /\ UNCHANGED <<config, unloading, ffmpegMajor, value, lockTimers>>
    /\ UNCHANGED <<adapterVars, pending>>

\* device.pinRequired: template.pin.required of the templates that have a
\* pin, false for the others and for the custom things.
pinRequired(d) == d = "onOffSwitchWithPin"

\* Mutant: any registered device accepts the PIN.
setPinAnyDevice(devs, deviceId, pin) ==
    IF deviceId \in devs /\ pin = Str("1234") THEN "resolved" ELSE "Invalid PIN"

\* VirtualThingsAdapter.setPin; getDevice reads this.devices.
setPin(devs, deviceId, pin) ==
    IF deviceId \in devs /\ pinRequired(deviceId) /\ pin = Str("1234")
    THEN "resolved"
    ELSE "Invalid PIN"

SetPin(deviceId, pin) ==
    /\ last' = Last("setPin", <<deviceId, "">>, pin, Null, setPin(devices, deviceId, pin),
                    <<>>)
    /\ UNCHANGED <<config, unloading, ffmpegMajor, value, lockTimers, transcodeProcess, procs,
                   pending>>
    /\ UNCHANGED adapterVars

\* device.credentialsRequired: !!template.credentialsRequired.
credentialsRequired(d) == d = "onOffSwitchWithCredentials"

\* Mutant: the password is not compared.
setCredentialsAnyPassword(devs, deviceId, username, password) ==
    IF deviceId \in devs /\ credentialsRequired(deviceId) /\ username = Str("user")
    THEN "resolved"
    ELSE "Invalid credentials"

\* VirtualThingsAdapter.setCredentials; getDevice reads this.devices.
setCredentials(devs, deviceId, username, password) ==
    IF deviceId \in devs /\ credentialsRequired(deviceId) /\ username = Str("user")
          /\ password = Str("password")
    THEN "resolved"
    ELSE "Invalid credentials"

SetCredentials(deviceId, username, password) ==
    /\ last' = [Last("setCredentials", <<deviceId, "">>, username, Null,
                     setCredentials(devices, deviceId, username, password), <<>>)
                   EXCEPT !.arg2 = password]
    /\ UNCHANGED <<config, unloading, ffmpegMajor, value, lockTimers, transcodeProcess, procs,
                   pending>>
    /\ UNCHANGED adapterVars

\* Mutant: unload without the call of stopTranscode.
unloadKeepsProcess(cfg, unl, tp, ps) ==
    IF cfg = "undefined"
    THEN [unloading |-> unl, transcodeProcess |-> tp, procs |-> ps,
          events |-> <<>>, result |-> "TypeError"]
    ELSE [unloading |-> "true", transcodeProcess |-> tp, procs |-> ps,
          events |-> <<>>, result |-> "resolved"]

\* VirtualThingsAdapter.unload.  Before the configuration is loaded,
\* this.config is undefined and reading its field throws.
unload(cfg, unl, tp, ps) ==
    IF cfg = "undefined"
    THEN [unloading |-> unl, transcodeProcess |-> tp, procs |-> ps,
          events |-> <<>>, result |-> "TypeError"]
    ELSE [unloading |-> "true", result |-> "resolved"] @@ stopTranscode(tp, ps)

\* The loop of unload over this.devices: the drift timers of the
\* properties of the registered devices are cleared.
clearIntervals(cfg, devs, ivl) ==
    IF cfg = "undefined" \/ ~db.randomizePropertyValues THEN ivl
    ELSE {k \in ivl : k[1] \notin devs}

Unload ==
    /\ LET r == unload(config, unloading, transcodeProcess, procs) IN
       /\ unloading' = r.unloading
       /\ transcodeProcess' = r.transcodeProcess
       /\ procs' = r.procs
       /\ last' = Last("unload", NoKey, Null, Null, r.result, r.events)
    /\ interval' = clearIntervals(config, devices, interval)
    /\ unloadCalled' = TRUE
    /\ UNCHANGED <<config, ffmpegMajor, value, lockTimers, db, chain, devices, built, waiting,
                   pending>>

(***************************************************************************)
(* Specifications.  The devices share no state but the adapter's, so the   *)
(* property rules, the lock and the supervisor are also checked each on    *)
(* its own, with the actions of the others left out.                       *)
(***************************************************************************)
RuleKeys == {k \in PropKeys : k[1] \in {"onOffColorLight", "dimmableColorLight", "thermostat"}}
StreamKeys == {k \in PropKeys : k[1] = "videoCamera"}
LockKeys == {k \in PropKeys : k[1] = "lock"}

WriteRule == \E k \in RuleKeys : \E v \in Inputs(k[2]) : SetValue(k, v)
WriteStream == \E k \in StreamKeys : \E v \in Inputs(k[2]) : SetValue(k, v)
WriteLock == \E k \in LockKeys : \E v \in Inputs(k[2]) : SetValue(k, v)
InvokeLock == \E name \in {"lock", "unlock"} : PerformAction("lock", name)
TimerFires == \E u \in 0 .. RandomSteps - 1 : LockTimeout(u)
ProcessExits == \E p \in Pids : ProcessExit(p)
ProcessCloses == \E p \in Pids : CloseEvent(p)

InvokeAlarm == \E name \in Actions("alarm") : PerformActionCase("alarm", name, 0)
InvokeBasic ==
    \E name \in Actions("actionsEventsThing") : \E u \in 0 .. RandomSteps - 1 :
        PerformActionCase("actionsEventsThing", name, u)

\* The device ids and the PINs setPin is called with: a device that
\* requires a PIN, one that does not and an id of no device; the PIN the
\* code accepts, another of four digits, the number 1234 and none.
PinIds == {"onOffSwitchWithPin", "lock", "nothing"}
Pins == {Str("1234"), Str("0000"), Num(1234), Undefined}
EnterPin == \E deviceId \in PinIds : \E pin \in Pins : SetPin(deviceId, pin)

\* The device ids and the credentials setCredentials is called with: a
\* device that requires credentials, one that requires a PIN and an id of
\* no device; the names and passwords the code accepts, each other's value
\* and none.
CredentialIds == {"onOffSwitchWithCredentials", "onOffSwitchWithPin", "nothing"}
Usernames == {Str("user"), Str("password"), Undefined}
Passwords == {Str("password"), Str("user"), Undefined}
EnterCredentials ==
    \E deviceId \in CredentialIds : \E username \in Usernames : \E password \in Passwords :
        SetCredentials(deviceId, username, password)

NextProperty == AdapterReady \/ WriteRule
NextLock == AdapterReady \/ WriteLock \/ InvokeLock \/ TimerFires
NextStream == AdapterReady \/ WriteStream \/ ProcessExits \/ ProcessCloses \/ Unload

Next ==
    \/ AdapterReady
    \/ WriteRule
    \/ WriteStream
    \/ WriteLock
    \/ InvokeLock
    \/ TimerFires
    \/ ProcessExits
    \/ ProcessCloses
    \/ Unload
    \/ ConfigLoaded
    \/ StorageReady
    \/ (\E k \in waiting : \E st \in Stored(k[2]) : PropertyCreated(k, st))
    \/ StartPairing
    \/ (\E k \in interval : \E us \in (0 .. RandomSteps - 1) \X (0 .. RandomSteps - 1)
                                          \X (0 .. RandomSteps - 1) : Drift(k, us))
    \/ (\E k \in pending : \E ok \in BOOLEAN : SetItemSettles(k, ok))
    \/ InvokeAlarm
    \/ InvokeBasic
    \/ EnterPin
    \/ EnterCredentials

Spec == Init /\ [][Next]_vars
SpecProperty == Init /\ [][NextProperty]_vars
SpecLock == Init /\ [][NextLock]_vars
SpecStream == Init /\ [][NextStream]_vars

\* The supervisor with the event loop's delivery of 'close': node emits
\* 'close' for a process that has exited, so the listener of an exited
\* process that stays attached runs.
SpecStreamFair == SpecStream /\ \A p \in Pids : WF_vars(CloseEvent(p))

\* The supervisor and unload with the adapter's initialisation, with and
\* without persistence.
StartupConfigs == {[DefaultConfig EXCEPT !.persistPropertyValues = b] : b \in BOOLEAN}
CameraCreated == \E k \in StreamKeys : \E s \in Stored(k[2]) : PropertyCreated(k, s)

NextStartup ==
    \/ AdapterReady
    \/ ConfigLoaded
    \/ StorageReady
    \/ CameraCreated
    \/ WriteStream
    \/ ProcessExits
    \/ ProcessCloses
    \/ Unload

SpecStartup == InitWith(StartupConfigs) /\ [][NextStartup]_vars

\* The actions of the lock, the alarm and the actions-and-events thing.
NextAction ==
    \/ AdapterReady
    \/ InvokeLock
    \/ TimerFires
    \/ InvokeAlarm
    \/ InvokeBasic

SpecAction == Init /\ [][NextAction]_vars

\* setPin, with the construction of the switch that requires a PIN, with
\* and without persistence, and writes of its property.
SwitchKeys == {k \in PropKeys : k[1] = "onOffSwitchWithPin"}
SwitchCreated == \E k \in SwitchKeys : \E s \in Stored(k[2]) : PropertyCreated(k, s)
WriteSwitch == \E k \in SwitchKeys : \E v \in Inputs(k[2]) : SetValue(k, v)

NextPin ==
    \/ AdapterReady
    \/ ConfigLoaded
    \/ StorageReady
    \/ SwitchCreated
    \/ WriteSwitch
    \/ EnterPin

SpecPin == InitWith(StartupConfigs) /\ [][NextPin]_vars

\* setCredentials, with the construction of the switch that requires
\* credentials, with and without persistence, and writes of its property.
GuardedKeys == {k \in PropKeys : k[1] = "onOffSwitchWithCredentials"}
GuardedCreated == \E k \in GuardedKeys : \E s \in Stored(k[2]) : PropertyCreated(k, s)
WriteGuarded == \E k \in GuardedKeys : \E v \in Inputs(k[2]) : SetValue(k, v)

NextCredentials ==
    \/ AdapterReady
    \/ ConfigLoaded
    \/ StorageReady
    \/ GuardedCreated
    \/ WriteGuarded
    \/ EnterCredentials

SpecCredentials == InitWith(StartupConfigs) /\ [][NextCredentials]_vars

\* Construction and writes of a light and a switch, with and without
\* persistence, and the settling of the storage writes.
PersistKeys == {k \in PropKeys : k[1] \in {"onOffColorLight", "onOffSwitchWithPin"}}
PersistedCreated == \E k \in PersistKeys : \E s \in Stored(k[2]) : PropertyCreated(k, s)
WritePersisted == \E k \in PersistKeys : \E v \in Inputs(k[2]) : SetValue(k, v)
StoreSettles == \E k \in pending : \E ok \in BOOLEAN : SetItemSettles(k, ok)

NextPersist ==
    \/ AdapterReady
    \/ ConfigLoaded
    \/ StorageReady
    \/ PersistedCreated
    \/ WritePersisted
    \/ StoreSettles

SpecPersist == InitWith(StartupConfigs) /\ [][NextPersist]_vars

\* Values a caller may pass to setValue that the descriptor of the colour
\* temperature does not allow: above the maximum, and of another type.
Unchecked == {Num(10000), Str("warm")}
WriteUnchecked ==
    \E v \in Unchecked : SetValue(<<"dimmableColorLight", "colorTemperature">>, v)

\* The drift timers, with a custom thing of two integer properties, one of
\* them with a range whose ends are not whole, under every setting of
\* randomizePropertyValues and persistPropertyValues.
DriftThing ==
    CustomThing("a", <<RawProp("level", "integer", Str("42"), Num(40), Num(43)),
                       RawProp("step", "integer", Num(1), Frac(1, 2), Frac(5, 2))>>)

DriftConfigs ==
    {[randomizePropertyValues |-> r, persistPropertyValues |-> q,
      customThings |-> <<DriftThing>>] : r \in BOOLEAN, q \in BOOLEAN}

DriftDevices == {CustomId(DriftThing)}
DriftKeys == {<<"dimmableColorLight", "colorTemperature">>,
              <<CustomId(DriftThing), "level">>, <<CustomId(DriftThing), "step">>}

\* The draws followed: all of them for the integer properties, the least,
\* the middle and the greatest for the colour temperature.
DriftDraws(k) ==
    IF k[1] \in DeviceIds THEN {0, RandomSteps \div 2, RandomSteps - 1}
    ELSE 0 .. RandomSteps - 1

DriftFires == \E k \in DriftKeys : \E u \in DriftDraws(k) : Drift(k, <<u, u, u>>)
DriftCreated ==
    \E k \in waiting : k[1] \in DriftDevices /\ \E st \in Stored(k[2]) : PropertyCreated(k, st)
WriteDrifting ==
    \E v \in Inputs("colorTemperature") : SetValue(<<"dimmableColorLight", "colorTemperature">>, v)

NextDrift ==
    \/ AdapterReady
    \/ ConfigLoaded
    \/ StorageReady
    \/ DriftCreated
    \/ StartPairing
    \/ DriftFires
    \/ WriteDrifting
    \/ Unload

NextUnchecked ==
    \/ AdapterReady
    \/ ConfigLoaded
    \/ StorageReady
    \/ DriftCreated
    \/ StartPairing
    \/ DriftFires
    \/ WriteDrifting
    \/ WriteUnchecked
    \/ Unload

SpecUnchecked == InitWith(DriftConfigs) /\ [][NextUnchecked]_vars

SpecDrift == InitWith(DriftConfigs) /\ [][NextDrift]_vars

\* The lock with unload, startPairing, a written property with a derived
\* one, and the drift timers of these properties, with
\* randomizePropertyValues on and off.
LockConfigs == {[DefaultConfig EXCEPT !.randomizePropertyValues = r] : r \in BOOLEAN}
LockDriftKeys == {<<"lock", "locked">>, <<"dimmableColorLight", "colorTemperature">>}
LockDriftFires == \E k \in LockDriftKeys : \E u \in DriftDraws(k) : Drift(k, <<u, u, u>>)

NextLockDrift ==
    \/ AdapterReady
    \/ StartPairing
    \/ LockDriftFires
    \/ WriteDrifting
    \/ InvokeLock
    \/ TimerFires
    \/ Unload

SpecLockDrift == InitWith(LockConfigs) /\ [][NextLockDrift]_vars

\* The thermostat: writes of its mode and the drift timers of its two
\* properties, with randomizePropertyValues on and off.
ThermostatKeys == {k \in PropKeys : k[1] = "thermostat"}
WriteThermostat ==
    \E v \in Inputs("thermostatMode") : SetValue(<<"thermostat", "thermostatMode">>, v)
ThermostatDrifts ==
    \E k \in ThermostatKeys : \E u \in 0 .. RandomSteps - 1 : Drift(k, <<u, u, u>>)

NextThermostat ==
    \/ AdapterReady
    \/ WriteThermostat
    \/ ThermostatDrifts
    \/ Unload

SpecThermostat == InitWith(LockConfigs) /\ [][NextThermostat]_vars

\* The camera: the supervisor, writes of streamActive and the drift timers
\* of the camera's properties, with randomizePropertyValues on and off.
StreamDrifts ==
    \E k \in StreamKeys : \E u \in {0, RandomSteps - 1} : Drift(k, <<u, u, u>>)

NextStreamDrift ==
    \/ AdapterReady
    \/ WriteStream
    \/ StreamDrifts
    \/ ProcessExits
    \/ ProcessCloses

SpecStreamDrift == InitWith(LockConfigs) /\ [][NextStreamDrift]_vars

\* Custom things: lists of one descriptor with one property, of every type
\* with every default and range below, and lists of a descriptor without
\* properties and a descriptor with them; with and without persistence.
Types == {"integer", "number", "boolean", "null", "string"}
Defaults == {Str("42"), Str("4.5"), Str("abc"), Str("true"), Str("false"), Str(""),
             Num(42), Num(0), Bool(TRUE), Bool(FALSE), Null, Undefined}
Ranges == {<<Undefined, Undefined>>, <<Num(40), Num(43)>>, <<Num(5), Num(5)>>}

TypedThing(type, default, range) ==
    CustomThing("t", <<RawProp("p", type, default, range[1], range[2])>>)

CustomLists ==
    {<<TypedThing(t, dflt, rg)>> : t \in Types, dflt \in Defaults, rg \in Ranges}
    \cup {<<NoProperties("m"), DriftThing>>, <<DriftThing, NoProperties("m")>>}

CustomConfigs ==
    {[randomizePropertyValues |-> FALSE, persistPropertyValues |-> q,
      customThings |-> things] : q \in BOOLEAN, things \in CustomLists}

CustomCreated ==
    \E k \in waiting : k[1] \notin DeviceIds /\ PropertyCreated(k, Undefined)

NextCustom ==
    \/ AdapterReady
    \/ ConfigLoaded
    \/ StorageReady
    \/ CustomCreated
    \/ StartPairing

SpecCustom == InitWith(CustomConfigs) /\ [][NextCustom]_vars

\* Writes to properties that have a derived rule on devices without the
\* paired property: the colour of the on/off colour light, and a custom
\* thing with a thermostatMode and a colorTemperature property only.
UnpairedThing ==
    CustomThing("u", <<RawProp("thermostatMode", "string", Str("off"), Undefined, Undefined),
                       RawProp("colorTemperature", "number", Num(2500), Undefined, Undefined)>>)

UnpairedConfigs == {[DefaultConfig EXCEPT !.customThings = <<UnpairedThing>>]}

UnpairedKeys == {<<"onOffColorLight", "color">>,
                 <<CustomId(UnpairedThing), "thermostatMode">>,
                 <<CustomId(UnpairedThing), "colorTemperature">>}

WriteUnpaired == \E k \in UnpairedKeys : \E v \in Inputs(k[2]) : SetValue(k, v)

NextUnpaired == AdapterReady \/ WriteUnpaired

SpecUnpaired == InitWith(UnpairedConfigs) /\ [][NextUnpaired]_vars

\* Writes to the four properties that have a derived rule, with the
\* processes of the supervisor.
DerivingKeys == {<<"thermostat", "thermostatMode">>, <<"dimmableColorLight", "color">>,
                 <<"dimmableColorLight", "colorTemperature">>,
                 <<"videoCamera", "streamActive">>}

WriteDeriving == \E k \in DerivingKeys : \E v \in Inputs(k[2]) : SetValue(k, v)

NextRules == AdapterReady \/ WriteDeriving \/ ProcessExits \/ ProcessCloses

SpecRules == Init /\ [][NextRules]_vars

(***************************************************************************)
(* Properties                                                              *)
(***************************************************************************)
Writable(k) == ~Descr(k).readOnly
OfDeclaredType(k, v) == v.type = Descr(k).type
Kinds(events) == [i \in DOMAIN events |-> events[i].kind]
Emitted(kind) == \E i \in DOMAIN last.events : last.events[i].kind = kind

ThermostatMode == <<"thermostat", "thermostatMode">>
HeatingCooling == <<"thermostat", "heatingCooling">>
LightColor == <<"dimmableColorLight", "color">>
LightColorTemperature == <<"dimmableColorLight", "colorTemperature">>
LightColorMode == <<"dimmableColorLight", "colorMode">>
LightOn == <<"dimmableColorLight", "on">>
Locked == <<"lock", "locked">>
StreamActive == <<"videoCamera", "streamActive">>

\* C1: after setValue(v) on a property that is not read-only, with v of the
\* declared type, the property reads v (and the promise resolved to v).
C1_RoundTrip ==
    (last.op = "setValue" /\ Writable(last.key) /\ OfDeclaredType(last.key, last.arg))
        => /\ value[last.key] = last.arg
           /\ \A i \in DOMAIN last.events :
                  last.events[i].kind = "resolve" => last.events[i].val = last.arg

\* A write of true to the boolean property 'on', which held false.
C1_Witness ==
    /\ last.op = "setValue"
    /\ last.key = LightOn
    /\ last.arg = Bool(TRUE)
    /\ last.before = Bool(FALSE)
    /\ value[LightOn] = Bool(TRUE)

\* C2: setValue on a read-only property is rejected with 'Read-only property'
\* and changes nothing: no value, no process, no timer, and it has no effect
\* (no notification, no rule, no start or stop of the stream).
C2_ReadOnlyRejected ==
    [][\A k \in {rk \in PropKeys : Descr(rk).readOnly} : \A v \in Inputs(k[2]) :
          SetValue(k, v)
              => /\ UNCHANGED <<value, transcodeProcess, procs, lockTimers, unloading>>
                 /\ last'.result = "Read-only property"
                 /\ last'.events = <<>>]_vars

\* A rejected write of a value the read-only property does not hold.
C2_Witness ==
    /\ last.op = "setValue"
    /\ Descr(last.key).readOnly
    /\ last.result = "Read-only property"
    /\ value[last.key] # last.arg

\* C3: after setValue(thermostatMode, m), heatingCooling is 'heating' for
\* 'heat', 'cooling' for 'cool', 'off' for 'off', and what it was for any
\* other m (so that a repeated write leaves it as it is).
C3_ThermostatRule ==
    [][\A m \in Inputs("thermostatMode") :
          SetValue(ThermostatMode, m)
              => value'[HeatingCooling] =
                     CASE m = Str("heat") -> Str("heating")
                       [] m = Str("cool") -> Str("cooling")
                       [] m = Str("off") -> Str("off")
                       [] OTHER -> value[HeatingCooling]]_vars

\* 'auto' written while heatingCooling holds 'cooling': it still does.
C3_Witness ==
    /\ last.op = "setValue"
    /\ last.key = ThermostatMode
    /\ last.arg = Str("auto")
    /\ value[ThermostatMode] = Str("auto")
    /\ value[HeatingCooling] = Str("cooling")

\* C4: colorMode is 'color' after a successful setValue on color and
\* 'temperature' after one on colorTemperature, and no other step changes
\* it: it tells which of the two was written last.
C4_AfterWrite ==
    (last.op = "setValue" /\ last.result = "resolved")
        => /\ last.key = LightColor => value[LightColorMode] = Str("color")
           /\ last.key = LightColorTemperature => value[LightColorMode] = Str("temperature")

C4_ColorMode ==
    [][/\ C4_AfterWrite'
       /\ (LightColorMode \in DOMAIN value
             /\ value'[LightColorMode] # value[LightColorMode])
              => /\ last'.op = "setValue"
                 /\ last'.result = "resolved"
                 /\ last'.key \in {LightColor, LightColorTemperature}]_vars

\* colorTemperature written after color: colorMode went from 'color' to
\* 'temperature'; and the other way round.
C4_Witness ==
    /\ last.op = "setValue"
    /\ last.key = LightColor
    /\ value[LightColor] = Str("#ff0000")
    /\ value[LightColorTemperature] = Num(9000)
    /\ value[LightColorMode] = Str("color")
    /\ \E i \in DOMAIN last.events :
           last.events[i] = Ev("notify", LightColorMode, Str("color"))

\* C5: lock on a lock that reads 'locked' (unlock on one that reads
\* 'unlocked') starts and finishes the action at once: the property is not
\* written, nothing is notified and no timer is set.
C5_LockNoOp ==
    [][\A name \in {"lock", "unlock"} :
          (PerformAction("lock", name) /\ value[Locked] = TargetState(name))
              => /\ UNCHANGED <<value, lockTimers>>
                 /\ Kinds(last'.events) = <<"start", "finish">>]_vars

\* lock invoked on a lock that a resolution had set to 'locked'.
C5_Witness ==
    /\ last.op = "lock"
    /\ last.before = Str("locked")
    /\ value[Locked] = Str("locked")
    /\ lockTimers = <<>>
    /\ Emitted("finish")

\* C6: lock or unlock on a lock not in the target state writes 'unknown' in
\* the invocation itself and sets a timer for the target; when the timer
\* fires the property becomes 'jammed' if the number drawn from 0 .. 19 is
\* the sentinel and the target of that invocation for every other number.
C6_LockTransition ==
    [][/\ \A name \in {"lock", "unlock"} :
            (PerformAction("lock", name) /\ value[Locked] # TargetState(name))
                => /\ value'[Locked] = Str("unknown")
                   /\ lockTimers' = Append(lockTimers,
                          [device |-> "lock",
                           targetState |-> IF name = "lock" THEN Str("locked")
                                                            ELSE Str("unlocked")])
       /\ \A u \in 0 .. RandomSteps - 1 :
            LockTimeout(u)
                => /\ last'.draw \in 0 .. 19
                   /\ value'[Locked] = IF last'.draw = 2 THEN Str("jammed")
                                                        ELSE Head(lockTimers).targetState]_vars

\* The timer of an unlock fired with the sentinel drawn: the lock is jammed.
C6_Witness ==
    /\ last.op = "lockTimeout"
    /\ last.arg = Str("unlocked")
    /\ last.before = Str("unknown")
    /\ last.draw = 2
    /\ value[Locked] = Str("jammed")

\* C7: an invocation that sets a timer is not marked finished in the
\* invocation; it is marked finished by its timer, as the last effect, after
\* the property was set to the target or to 'jammed' (it is not 'unknown').
C7_FinishAfterResolution ==
    /\ (last.op \in {"lock", "unlock"} /\ Emitted("setTimeout")) => ~Emitted("finish")
    /\ last.op = "lockTimeout"
         => /\ last.events # <<>>
            /\ last.events[Len(last.events)].kind = "finish"
            /\ \A i \in 1 .. Len(last.events) - 1 : last.events[i].kind # "finish"
            /\ value[last.key] \in {last.arg, Str("jammed")}
            /\ value[last.key] # Str("unknown")

\* An unlock was invoked and is not finished: the property reads 'unknown'.
C7_Witness ==
    /\ last.op = "unlock"
    /\ Emitted("setTimeout")
    /\ value[Locked] = Str("unknown")
    /\ Len(lockTimers) = 1

\* C8: from 'jammed', lock and unlock both write 'unknown' and set a timer.
C8_JammedNotTerminal ==
    [][\A name \in {"lock", "unlock"} :
          (PerformAction("lock", name) /\ value[Locked] = Str("jammed"))
              => /\ value'[Locked] = Str("unknown")
                 /\ Len(lockTimers') = Len(lockTimers) + 1
                 /\ lockTimers'[Len(lockTimers')].targetState = TargetState(name)
                 /\ Kinds(last'.events) = <<"start", "notify", "setTimeout">>]_vars

\* lock invoked on a jammed lock.
C8_Witness ==
    /\ last.op = "lock"
    /\ last.before = Str("jammed")
    /\ value[Locked] = Str("unknown")
    /\ lockTimers # <<>>

\* C9: a process that runs and was not stopped is the one the adapter holds,
\* so there is at most one; and a step spawns only from no handle held.
Live == {p \in Pids : procs[p].st = "running" /\ ~procs[p].killed}

C9_OneProcess ==
    /\ Cardinality(Live) <= 1
    /\ \A p \in Live : transcodeProcess = p

\* streamActive written true while a process runs: startTranscode was
\* called and spawned nothing.
C9_Witness ==
    /\ last.op = "setValue"
    /\ last.key = StreamActive
    /\ last.before = Bool(TRUE)
    /\ Kinds(last.events) = <<"startTranscode", "resolve", "notify">>
    /\ transcodeProcess \in Live

\* C10: a process spawns only in a setValue (of streamActive) or in the
\* 'close' listener of a process that was not stopped: the exit of a stopped
\* process runs no listener and spawns nothing.
C10_NoRestartAfterStop ==
    /\ last.op = "close" => last.result # "killed"
    /\ Emitted("spawn") => last.op \in {"setValue", "close"}
    /\ \A p \in Pids : procs[p].killed => ~procs[p].listeners

\* The stopped process has exited, and no process is held or running.
C10_Witness ==
    /\ last.op = "exit"
    /\ last.result = "killed"
    /\ transcodeProcess = NoProcess
    /\ \A p \in Pids : procs[p].st = "free"
    /\ unloading = "false"

\* C11: once unload has been called, no handler spawns a transcoding
\* process.
C11_NoSpawnAfterUnload == unloadCalled => ~Emitted("spawn")

\* C12: when the process held has exited, the transcoding tool is available
\* and unload has not run, a process is running again later, unless
\* stopTranscode is called meanwhile (by a write of streamActive or unload).
C12_Restarts ==
    \A p \in Pids :
        (transcodeProcess = p /\ procs[p].st = "exited"
            /\ unloading # "true" /\ ffmpegMajor # NoVersion)
        ~> (transcodeProcess \in Live \/ Emitted("stopTranscode"))

\* The 'close' listener of an exited process has spawned the next one.
C12_Witness ==
    /\ last.op = "close"
    /\ last.result # "killed"
    /\ Emitted("spawn")
    /\ transcodeProcess \in Live

\* C13: after unload no process handle is held and no process that was not
\* sent the kill signal is running, whether unload returned or threw.
C13_NothingLeftAfterUnload ==
    last.op = "unload" => (transcodeProcess = NoProcess /\ Live = {})

\* unload has stopped a process that was held, the configuration having
\* been loaded with persistence.
C13_Witness ==
    /\ last.op = "unload"
    /\ last.result = "resolved"
    /\ Emitted("kill")
    /\ db.persistPropertyValues
    /\ transcodeProcess = NoProcess
    /\ \E p \in Pids : procs[p].killed

C15_NoChangeWithoutWrite ==
    [][~db.randomizePropertyValues =>
         /\ interval' = {}
         /\ (\E k \in DOMAIN value : value'[k] # value[k])
              => last'.op \in {"setValue", "lock", "unlock", "lockTimeout"}]_vars

\* Drift is off, a lock timer is pending and startPairing has run again:
\* no timer exists and the values are as the action left them.
C15_Witness ==
    /\ ~db.randomizePropertyValues
    /\ last.op = "startPairing"
    /\ last.result = "resolved"
    /\ lockTimers # <<>>
    /\ interval = {}
    /\ value[<<"lock", "locked">>] = Str("unknown")

\* C16: once unload has been called, no drift timer fires.
C16_NoDriftAfterUnload == unloadCalled => last.op # "drift"

\* C17: unload cancels the pending lock timers: when unload has returned,
\* no timer of a lock or unlock action is left to fire.
C17_UnloadCancelsLockTimers ==
    (last.op = "unload" /\ last.result = "resolved") => lockTimers = <<>>

\* C18: at most one device instance is constructed for an id.
C18_OneInstancePerId == \A id \in AllIds : built[id] <= 1

\* The descriptor property a custom property was built from.
RawOf(k) ==
    LET descr == CHOOSE t \in {db.customThings[i] : i \in DOMAIN db.customThings} :
                     CustomId(t) = k[1]
    IN CHOOSE property \in {descr.properties[i] : i \in DOMAIN descr.properties} :
           property.name = k[2]

HasType(type, v) ==
    CASE type \in {"integer", "number"} -> v.type = "number"
      [] type = "boolean" -> v.type = "boolean"
      [] type = "null" -> v = Null
      [] type = "string" -> v.type = "string"

C20_BatchNeverAborts ==
    (last.op \in {"ready", "startPairing"} /\ config = "loaded")
    => /\ last.result = "resolved"
       /\ \A i \in DOMAIN db.customThings :
              db.customThings[i].hasProperties => built[CustomId(db.customThings[i])] >= 1

\* The property the derived rule of property k writes.
PairedKey(k) ==
    IF k[2] = "thermostatMode" THEN <<k[1], "heatingCooling">> ELSE <<k[1], "colorMode">>

\* C21: setValue on thermostatMode, color or colorTemperature of a device
\* without the paired property resolves, stores the value and notifies the
\* change.
C21_UnpairedWriteSucceeds ==
    (last.op = "setValue"
        /\ last.key[2] \in {"thermostatMode", "color", "colorTemperature"}
        /\ PairedKey(last.key) \notin DOMAIN value)
    => /\ last.result = "resolved"
       /\ value[last.key] = last.arg
       /\ Kinds(last.events) = <<"resolve", "notify">>

CountOf(events, kind, key) ==
    Cardinality({i \in DOMAIN events : events[i].kind = kind /\ events[i].key = key})

\* C22: a setValue that resolves on thermostatMode, color, colorTemperature
\* or streamActive resolves once and notifies its property once; the rule
\* writes the paired property and notifies it at most once, or calls one of
\* startTranscode and stopTranscode once; no other property is written or
\* notified, and the paired property is written with no resolution of its
\* own.
C22_RuleRunsOnce ==
    [][(last'.op = "setValue" /\ last'.result = "resolved" /\ last'.key \in DerivingKeys) =>
        LET k == last'.key
            pk == PairedKey(k)
            ev == last'.events
        IN /\ Cardinality({i \in DOMAIN ev : ev[i].kind = "resolve"}) = 1
           /\ CountOf(ev, "resolve", k) = 1
           /\ CountOf(ev, "notify", k) = 1
           /\ \A i \in DOMAIN ev : ev[i].key \in {k, pk, NoKey}
           /\ \A j \in DOMAIN value : j \notin {k, pk} => value'[j] = value[j]
           /\ IF k[2] = "streamActive"
              THEN CountOf(ev, "startTranscode", NoKey) + CountOf(ev, "stopTranscode", NoKey) = 1
              ELSE /\ CountOf(ev, "notify", pk) <= 1
                   /\ CountOf(ev, "notify", pk) = 1 <=> value'[pk] # value[pk]
                   /\ CountOf(ev, "startTranscode", NoKey) + CountOf(ev, "stopTranscode", NoKey) = 0
       ]_vars

\* A write of thermostatMode has moved heatingCooling: the rule's
\* notification, then the resolution and the notification of the write.
C22_Witness ==
    /\ last.op = "setValue"
    /\ last.key = ThermostatMode
    /\ last.arg = Str("cool")
    /\ Kinds(last.events) = <<"notify", "resolve", "notify">>
    /\ last.events[1].key = HeatingCooling
    /\ value[HeatingCooling] = Str("cooling")

\* C23, as stated: a resolved write of streamActive = false calls
\* stopTranscode and leaves no process running; a resolved write of true
\* calls startTranscode, and a process is running after it when ffmpeg is
\* available and the adapter is not unloading.
C23_StreamWriteToggles ==
    (last.op = "setValue" /\ last.key = StreamActive /\ last.result = "resolved") =>
        IF value[StreamActive] = Bool(FALSE)
        THEN Emitted("stopTranscode") /\ transcodeProcess = NoProcess /\ Live = {}
        ELSE /\ Emitted("startTranscode")
             /\ (ffmpegMajor # NoVersion /\ unloading # "true") => transcodeProcess \in Live

\* C23, amended: after the write of true, with ffmpeg available and the
\* adapter not unloading, a process is held: it is running, or it has
\* exited and its 'close' listener, which starts the next one, has not run
\* yet.
C23_StreamWriteHoldsProcess ==
    (last.op = "setValue" /\ last.key = StreamActive /\ last.result = "resolved") =>
        IF value[StreamActive] = Bool(FALSE)
        THEN Emitted("stopTranscode") /\ transcodeProcess = NoProcess /\ Live = {}
        ELSE /\ Emitted("startTranscode")
             /\ (ffmpegMajor # NoVersion /\ unloading # "true") =>
                  /\ transcodeProcess # NoProcess
                  /\ \/ transcodeProcess \in Live
                     \/ /\ procs[transcodeProcess].st = "exited"
                        /\ procs[transcodeProcess].listeners

\* streamActive was written true while the process held had exited and its
\* 'close' listener had not run: nothing was spawned.
C23_Witness ==
    /\ last.op = "setValue"
    /\ last.key = StreamActive
    /\ value[StreamActive] = Bool(TRUE)
    /\ unloading = "false"
    /\ Kinds(last.events) = <<"startTranscode", "resolve", "notify">>
    /\ transcodeProcess # NoProcess
    /\ procs[transcodeProcess].st = "exited"

\* C25: a change notification of a property carries the value the property
\* holds after the handler that notified: the value was stored before the
\* notification, and no handler stores a property twice.
C25_NotifyAfterUpdate ==
    \A i \in DOMAIN last.events :
        last.events[i].kind = "notify" =>
            /\ last.events[i].key \in DOMAIN value
            /\ last.events[i].val = value[last.events[i].key]

\* The lock timer has fired while the drift timer had moved the property:
\* both notifications of the callback carry the value it stored.
C25_Witness ==
    /\ last.op = "lockTimeout"
    /\ db.randomizePropertyValues
    /\ Kinds(last.events) = <<"notify", "notify", "finish">>
    /\ last.before # Str("unknown")
    /\ last.before # value[last.key]
    /\ last.events[1].val = value[last.key]

\* C24: with persistence, a write of a writable property resolves, holds
\* the written value, notifies and leaves a storage write in flight; when
\* that storage write settles, fulfilled or rejected, no value changes,
\* nothing is notified and the failure is only logged.
C24_StoreFailureKeepsWrite ==
    [][/\ (last'.op = "setValue" /\ db.persistPropertyValues
              /\ ~Descr(last'.key).readOnly)
          => /\ last'.result = "resolved"
             /\ value'[last'.key] = Coerce(last'.key, last'.arg)
             /\ Kinds(last'.events) = <<"resolve", "notify">>
             /\ last'.events[2].val = value'[last'.key]
             /\ last'.key \in pending'
       /\ last'.op = "setItem"
          => /\ value' = value
             /\ last'.result \in {"stored", "logged"}
             /\ ~Emitted("notify")'
             /\ devices' = devices]_vars

C24_Witness ==
    /\ last.op = "setItem"
    /\ last.result = "logged"
    /\ last.key = <<"onOffColorLight", "color">>
    /\ value[last.key] = Str("#ff0000")

\* C26 (as stated): a constructed property holds the stored value when
\* persistence is enabled and storage holds one, the template's otherwise.
C26_InitialFromStorage ==
    /\ last.op = "created"
       => value[last.key] = IF last.arg # Undefined THEN last.arg
                                                   ELSE Descr(last.key).value
    /\ (last.op = "ready" /\ ~db.persistPropertyValues)
       => \A k \in DOMAIN value : value[k] = Descr(k).value

\* C26 (amended): a stored null counts as no stored value.
C26_InitialFromStorageNotNull ==
    /\ last.op = "created"
       => value[last.key] = IF last.arg \notin {Undefined, Null} THEN last.arg
                                                              ELSE Descr(last.key).value
    /\ (last.op = "ready" /\ ~db.persistPropertyValues)
       => \A k \in DOMAIN value : value[k] = Descr(k).value

C26_Witness ==
    /\ last.op = "created"
    /\ last.key = <<"onOffColorLight", "color">>
    /\ last.arg = Str("#00ff00")
    /\ value[last.key] = Str("#00ff00")
    /\ Descr(last.key).value = Str("#ffffff")

Whole(v) == v.type = "number" /\ v # NaN /\ v.d = 1

Satisfies(k, v) ==
    LET enum == EnumOf(k)
        range == RangeOf(k)
    IN /\ HasType(Descr(k).type, v)
       /\ Descr(k).type = "integer" => Whole(v)
       /\ enum # <<>> => \E i \in DOMAIN enum : v = Str(enum[i])
       /\ range.minimum # Undefined => (IsNumber(v) /\ Leq(range.minimum, v))
       /\ range.maximum # Undefined => (IsNumber(v) /\ Leq(v, range.maximum))

\* C27: in every reachable state the value of every property is of the
\* type its descriptor declares, is one of the enumerated values if the
\* descriptor has any, and is within minimum and maximum if declared.
C27_ValueSatisfiesDescriptor ==
    \A k \in DOMAIN value : Satisfies(k, value[k])

Alarm == <<"alarm", "alarm">>

\* C28 (as stated): trigger sets the alarm property to true and silence
\* sets it to false, and each of the two emits an event.
C28_AlarmActionsEmitEvent ==
    last.op \in {"trigger", "silence"}
    => /\ value[Alarm] = Bool(last.op = "trigger")
       /\ Emitted("event")

\* C28 (amended): trigger sets the alarm property to true, notifies the
\* property and emits alarmEvent; silence sets it to false and notifies the
\* property, and emits no event.  Both write the read-only property and
\* notify it whether or not the value changed.
C28_AlarmActions ==
    /\ last.op = "trigger"
       => /\ value[Alarm] = Bool(TRUE)
          /\ Kinds(last.events) = <<"start", "notify", "event", "finish">>
          /\ last.events[2] = Ev("notify", Alarm, Bool(TRUE))
          /\ last.events[3].key = <<"alarm", "alarmEvent">>
    /\ last.op = "silence"
       => /\ value[Alarm] = Bool(FALSE)
          /\ Kinds(last.events) = <<"start", "notify", "finish">>
          /\ last.events[2] = Ev("notify", Alarm, Bool(FALSE))

C28_Witness ==
    /\ last.op = "silence"
    /\ last.before = Bool(TRUE)
    /\ value[Alarm] = Bool(FALSE)
    /\ Descr(Alarm).readOnly

ActionNames == UNION {Actions(d) : d \in DeviceIds}

\* C29: an action invocation that has resolved was marked started once and
\* finished once, started first and finished last.
C29_ResolvesAfterFinished ==
    (last.op \in ActionNames /\ last.result = "resolved")
    => LET kinds == Kinds(last.events) IN
       /\ Cardinality({i \in DOMAIN kinds : kinds[i] = "start"}) = 1
       /\ Cardinality({i \in DOMAIN kinds : kinds[i] = "finish"}) = 1
       /\ kinds[1] = "start"
       /\ kinds[Len(kinds)] = "finish"

\* C30: setPin resolves exactly when the id is that of a registered device,
\* the device requires a PIN and the PIN is the string '1234'; otherwise it
\* is rejected with 'Invalid PIN'; it changes nothing of the devices, their
\* properties or the adapter.
C30_SetPin ==
    [][last'.op = "setPin"
       => /\ last'.result = "resolved"
             <=> /\ last'.key[1] \in devices
                 /\ pinRequired(last'.key[1])
                 /\ last'.arg = Str("1234")
          /\ last'.result \in {"resolved", "Invalid PIN"}
          /\ UNCHANGED <<config, unloading, ffmpegMajor, value, lockTimers,
                         transcodeProcess, procs, pending, adapterVars>>]_vars

C30_Witness ==
    /\ last.op = "setPin"
    /\ last.result = "resolved"
    /\ last.key[1] = "onOffSwitchWithPin"
    /\ value[<<"onOffSwitchWithPin", "on">>] = Bool(TRUE)

\* C31: setCredentials resolves exactly when the id is that of a registered
\* device, the device requires credentials, the username is 'user' and the
\* password is 'password'; otherwise it is rejected with 'Invalid
\* credentials'.
C31_SetCredentials ==
    [][last'.op = "setCredentials"
       => /\ last'.result = "resolved"
             <=> /\ last'.key[1] \in devices
                 /\ credentialsRequired(last'.key[1])
                 /\ last'.arg = Str("user")
                 /\ last'.arg2 = Str("password")
          /\ last'.result \in {"resolved", "Invalid credentials"}
          /\ UNCHANGED <<value, devices, pending>>]_vars

C31_Witness ==
    /\ last.op = "setCredentials"
    /\ last.result = "resolved"
    /\ last.key[1] = "onOffSwitchWithCredentials"
    /\ value[<<"onOffSwitchWithCredentials", "on">>] = Bool(TRUE)

LockStates == {Str("locked"), Str("unlocked"), Str("jammed"), Str("unknown")}

\* C32: the locked property of the lock always holds one of 'locked',
\* 'unlocked', 'jammed' and 'unknown'.
C32_LockedInStates ==
    Locked \in DOMAIN value => value[Locked] \in LockStates

\* A drift firing has changed the state of the lock.
C32_Witness ==
    /\ last.op = "drift"
    /\ last.key = Locked
    /\ last.before = Str("unlocked")
    /\ value[Locked] = Str("jammed")

\* C33: when a timer's callback has set the lock to 'jammed' and no other
\* timer is pending, a step that is not a lock or unlock invocation leaves
\* the lock 'jammed'.
C33_JammedStays ==
    [][(/\ last.op = "lockTimeout"
        /\ value[Locked] = Str("jammed")
        /\ lockTimers = <<>>
        /\ last'.op \notin {"lock", "unlock"})
       => value'[Locked] = Str("jammed")]_vars

\* C34: a firing of a drift timer whose drawn value equals the current one
\* changes no value and notifies nothing; one whose drawn value differs
\* stores the drawn value in that property alone and notifies it once.
C34_DriftWritesOnChange ==
    [][last'.op = "drift"
       => IF last'.arg = value[last'.key] \/ last'.arg = Undefined
          THEN value' = value /\ last'.events = <<>>
          ELSE /\ value' = [value EXCEPT ![last'.key] = last'.arg]
               /\ last'.events = <<Ev("notify", last'.key, last'.arg)>>]_vars

\* The timer has drawn the value the property already holds.
C34_Witness ==
    /\ last.op = "drift"
    /\ last.arg = last.before
    /\ last.arg = Num(2)
    /\ value[last.key] = Num(2)
    /\ last.events = <<>>

\* C35: whenever thermostatMode is 'heat', 'cool' or 'off', heatingCooling
\* is 'heating', 'cooling' or 'off' respectively.
C35_DerivedConsistent ==
    ThermostatMode \in DOMAIN value
    => /\ value[ThermostatMode] = Str("heat") => value[HeatingCooling] = Str("heating")
       /\ value[ThermostatMode] = Str("cool") => value[HeatingCooling] = Str("cooling")
       /\ value[ThermostatMode] = Str("off") => value[HeatingCooling] = Str("off")

\* C36: a setValue that resolves changes no property but the one written
\* and, when that one is thermostatMode, color or colorTemperature, the
\* paired derived property of the same device; the set of properties stays
\* the same.
C36_WritesIndependent ==
    [][(last'.op = "setValue" /\ last'.result = "resolved") =>
        LET k == last'.key
            written == {k} \cup (IF k[2] \in {"thermostatMode", "color", "colorTemperature"}
                                 THEN {PairedKey(k)} ELSE {})
        IN /\ DOMAIN value' = DOMAIN value
           /\ \A j \in DOMAIN value : j \notin written => value'[j] = value[j]]_vars

\* The colour of one light is written while the other light, the light's
\* colour temperature and the thermostat hold written values.
C36_Witness ==
    /\ last.op = "setValue"
    /\ last.key = LightColor
    /\ last.result = "resolved"
    /\ value[LightColor] = Str("#ff0000")
    /\ value[<<"onOffColorLight", "color">>] = Str("#ffffff")
    /\ value[LightColorTemperature] = Num(9000)
    /\ value[LightOn] = Bool(TRUE)
    /\ value[ThermostatMode] = Str("cool")

\* C37: whenever the locked property reads 'unknown', a timer of a lock or
\* unlock action is pending for the device.
C37_UnknownHasTimer ==
    (Locked \in DOMAIN value /\ value[Locked] = Str("unknown"))
    => \E i \in DOMAIN lockTimers : lockTimers[i].device = "lock"

\* C38: while a lock or unlock invocation that changes the state is started
\* and not finished (its timer is pending), the locked property reads
\* 'unknown'.
C38_UnknownWhileUnfinished ==
    lockTimers # <<>> => value[Locked] = Str("unknown")

\* C39: whenever a transcoding process is running and was not sent the kill
\* signal, the streamActive property of some device reads true.
C39_ProcessOnlyWhileActive ==
    Live # {} => \E k \in DOMAIN value : k[2] = "streamActive" /\ value[k] = Bool(TRUE)

PropertiesOf(vals, d) == {k \in DOMAIN vals : k[1] = d}

\* C40: a device is registered only when every property of its template
\* has been created and none is awaited, each created with the value
\* seeded for it; the properties of a registered device stay the same set.
C40_RegisteredWhenComplete ==
    [][/\ \A d \in devices' \ devices :
             /\ KeysOf(d) \cap waiting' = {}
             /\ PropertiesOf(value', d) = KeysOf(d)
       /\ \A d \in devices :
             /\ d \in devices'
             /\ PropertiesOf(value', d) = PropertiesOf(value, d)
       /\ last'.op = "created"
             => value'[last'.key] = Coerce(last'.key, initialValue(last'.key, last'.arg))]_vars

\* With persistence, the camera is registered by the creation of the
\* second of its two properties.
C40_Witness ==
    /\ db.persistPropertyValues
    /\ last.op = "created"
    /\ last.key = StreamActive
    /\ last.arg = Bool(TRUE)
    /\ "videoCamera" \in devices
    /\ PropertiesOf(value, "videoCamera") = KeysOf("videoCamera")
    /\ "lock" \notin devices

====
